---- MODULE Spec2Model ----
(***************************************************************************)
(* The three satisfiability engines of scripts/dp.py, scripts/resolution.py *)
(* and scripts/dpll.py, run one after the other on the same formula F:     *)
(*     dpll(F, A) with A = []; resolution(F); dp(F)                         *)
(* A literal is a nonzero integer, a clause a Python list of literals, a   *)
(* formula a Python list of clauses.  Python's None is the empty tuple     *)
(* NoneV and a value x that may be None is the 1-tuple Some(x).            *)
(***************************************************************************)
EXTENDS Integers, Sequences, FiniteSets

\* Bounds of the input formulas: the variables are 1..NumVars, and a formula
\* written in DIMACS form (the literals of each clause, then a 0) has at most
\* MaxTokens integers.
NumVars == 2
MaxTokens == 6

Lits == {l \in (0 - NumVars)..NumVars : l # 0}

\* The engines take any list of clauses.  ClausesOf is the list of clauses
\* that a sequence of integers, each clause closed by a 0, stands for; unlike
\* parse_cnf_file it keeps a clause with no literal.
RECURSIVE ClausesOf(_, _)
ClausesOf(tokens, clause) ==
  IF tokens = <<>> THEN <<>>
  ELSE IF Head(tokens) = 0 THEN <<clause>> \o ClausesOf(Tail(tokens), <<>>)
  ELSE ClausesOf(Tail(tokens), Append(clause, Head(tokens)))

\* The sequences of at most MaxTokens integers that end a clause where they
\* end.  Their lists of clauses are all the formulas within the bounds:
\* literals in any order, repeated literals, tautological, repeated and
\* empty clauses included.
TokenLists(n) == {t \in [1..n -> Lits \cup {0}] : n = 0 \/ t[n] = 0}

NoneV == <<>>
Some(x) == <<x>>

abs(l) == IF l < 0 THEN 0 - l ELSE l
ToSet(s) == {s[i] : i \in DOMAIN s}
InList(x, s) == \E i \in DOMAIN s : s[i] = x

VARIABLES
  F,              \* the caller's formula object
  A,              \* the caller's assignment list object, passed to dpll
  pc,             \* which call the driver is in: "dpll", "resolution", "dp", "done"
  formula,        \* dp: the working formula (list of clauses, each a set of literals)
  variables,      \* dp: the pending variable set
  dp_started,     \* dp: lines 35-36 have run
  dp_rounds,      \* dp: number of iterations of the while loop run so far
  dp_eliminated,  \* dp: the variables popped so far
  dp_result,      \* dp: NoneV while running, Some(TRUE) = SAT, Some(FALSE) = UNSAT
  known_clauses,  \* resolution: the known set (set of frozensets)
  res_started,    \* resolution: line 35 has run
  res_passes,     \* resolution: number of passes of the while True loop so far
  res_result,     \* resolution: NoneV while running, Some(TRUE) = SAT, Some(FALSE) = UNSAT
  stack,          \* dpll: the call stack, the innermost call last
  ret,            \* dpll: the value a callee has just returned, NoneV when none
  dpll_result     \* dpll: NoneV while running, Some([sat, result]) once the root returned

vars == <<F, A, pc, formula, variables, dp_started, dp_rounds, dp_eliminated, dp_result,
          known_clauses, res_started, res_passes, res_result, stack, ret, dpll_result>>

dpVars == <<formula, variables, dp_started, dp_rounds, dp_eliminated, dp_result>>
resVars == <<known_clauses, res_started, res_passes, res_result>>
dpllVars == <<A, stack, ret, dpll_result>>

---------------------------------------------------------------------------
(* scripts/dp.py *)

\* is_tautology(clause): some literal's negation is in the clause too.
is_tautology(clause) == \E literal \in clause : (0 - literal) \in clause

\* resolve(clause1, clause2, variable): clause1 without `variable` joined with
\* clause2 without `-variable`; None when that is a tautology.
resolve(clause1, clause2, variable) ==
  LET resolvent == {literal \in clause1 : literal # variable}
                     \cup {literal \in clause2 : literal # 0 - variable}
  IN IF ~is_tautology(resolvent) THEN Some(resolvent) ELSE NoneV

\* deepcopy(clauses).  dp reads a clause only through `in` and through the
\* comparison with [] of line 50, which an input clause (a list) and a
\* resolvent (a list) pass exactly when they have no literal; so a clause is
\* kept as the set of its literals.  The list of clauses keeps its order and
\* its duplicates.
dp_copy(clauses) == [i \in DOMAIN clauses |-> ToSet(clauses[i])]

\* set(abs(literal) for clause in formula for literal in clause)
dp_variables(f) == {abs(literal) : literal \in UNION {f[i] : i \in DOMAIN f}}

\* The nested loops of lines 42-47: the resolvents of every c1 of pos_clauses
\* with every c2 of neg_clauses, in loop order, None results skipped.
RECURSIVE resolve_row(_, _, _)
resolve_row(c1, neg_clauses, var) ==
  IF neg_clauses = <<>> THEN <<>>
  ELSE LET resolvent == resolve(c1, Head(neg_clauses), var)
       IN (IF resolvent # NoneV THEN <<resolvent[1]>> ELSE <<>>)
            \o resolve_row(c1, Tail(neg_clauses), var)

RECURSIVE resolve_all(_, _, _)
resolve_all(pos_clauses, neg_clauses, var) ==
  IF pos_clauses = <<>> THEN <<>>
  ELSE resolve_row(Head(pos_clauses), neg_clauses, var)
         \o resolve_all(Tail(pos_clauses), neg_clauses, var)

\* One iteration of the while loop, after var was popped: lines 40-49.
dp_eliminate(f, var) ==
  LET pos_clauses == SelectSeq(f, LAMBDA clause : var \in clause)
      neg_clauses == SelectSeq(f, LAMBDA clause : (0 - var) \in clause)
      new_clauses == resolve_all(pos_clauses, neg_clauses, var)
      rest == SelectSeq(f, LAMBDA clause : var \notin clause /\ (0 - var) \notin clause)
  IN rest \o new_clauses

\* Lines 35-36.
DpStart ==
  /\ pc = "dp" /\ ~dp_started
  /\ formula' = dp_copy(F)
  /\ variables' = dp_variables(dp_copy(F))
  /\ dp_started' = TRUE
  /\ UNCHANGED <<F, pc, dp_rounds, dp_eliminated, dp_result>>
  /\ UNCHANGED resVars /\ UNCHANGED dpllVars

\* DpRound with the pop of line 38 reading an element without removing it.
DpRound_no_pop ==
  /\ pc = "dp" /\ dp_started /\ variables # {}
  /\ \E var \in variables :
       LET f2 == dp_eliminate(formula, var)
       IN /\ variables' = variables
          /\ formula' = f2
          /\ dp_eliminated' = dp_eliminated \cup {var}
          /\ dp_rounds' = dp_rounds + 1
          /\ IF InList({}, f2)
               THEN dp_result' = Some(FALSE) /\ pc' = "done"
               ELSE dp_result' = dp_result /\ pc' = pc
  /\ UNCHANGED <<F, dp_started>>
  /\ UNCHANGED resVars /\ UNCHANGED dpllVars

\* Lines 37-51: one iteration of `while variables`; variables.pop() takes an
\* arbitrary element.
DpRound ==
  /\ pc = "dp" /\ dp_started /\ variables # {}
  /\ \E var \in variables :
       LET f2 == dp_eliminate(formula, var)
       IN /\ variables' = variables \ {var}
          /\ formula' = f2
          /\ dp_eliminated' = dp_eliminated \cup {var}
          /\ dp_rounds' = dp_rounds + 1
          /\ IF InList({}, f2)
               THEN dp_result' = Some(FALSE) /\ pc' = "done"
               ELSE dp_result' = dp_result /\ pc' = pc
  /\ UNCHANGED <<F, dp_started>>
  /\ UNCHANGED resVars /\ UNCHANGED dpllVars

\* Line 53: the loop ended with no variable left.
DpExit ==
  /\ pc = "dp" /\ dp_started /\ variables = {}
  /\ dp_result' = Some(TRUE)
  /\ pc' = "done"
  /\ UNCHANGED <<F, formula, variables, dp_started, dp_rounds, dp_eliminated>>
  /\ UNCHANGED resVars /\ UNCHANGED dpllVars

---------------------------------------------------------------------------
(* scripts/resolution.py *)

\* resolve_clauses(clause1, clause2): the first literal of clause1 whose
\* negation is in clause2 decides; the iteration order of a set is arbitrary,
\* and every literal that qualifies gives the same result (two clashing
\* variables make every candidate a tautology).
resolve_clauses(clause1, clause2) ==
  LET clashing == {literal \in clause1 : (0 - literal) \in clause2}
  IN IF clashing = {} THEN NoneV
     ELSE LET literal == CHOOSE l \in clashing : TRUE
              resolvent == (clause1 \cup clause2) \ {literal, 0 - literal}
          IN IF \E lit \in resolvent : (0 - lit) \in resolvent
               THEN NoneV
               ELSE Some(resolvent)

\* set(frozenset(clause) for clause in clauses_set)
res_seed(clauses_set) == {ToSet(clauses_set[i]) : i \in DOMAIN clauses_set}

\* Every non-None result of resolve_clauses over the pairs i < j of clause_list.
res_resolvents(known) ==
  LET results == UNION {{resolve_clauses(c1, c2) : c2 \in known \ {c1}} : c1 \in known}
  IN {r[1] : r \in results \ {NoneV}}

\* Line 35.
ResStart ==
  /\ pc = "resolution" /\ ~res_started
  /\ known_clauses' = res_seed(F)
  /\ res_started' = TRUE
  /\ UNCHANGED <<F, pc, res_passes, res_result>>
  /\ UNCHANGED dpVars /\ UNCHANGED dpllVars

\* ResPass with the issubset test of line 46 lost: only an empty candidate set
\* ends the loop.
ResPass_no_subset_test ==
  /\ pc = "resolution" /\ res_started
  /\ LET found == res_resolvents(known_clauses)
         new_resolvents == found \ {{}}
     IN IF {} \in found
          THEN /\ res_result' = Some(FALSE)
               /\ pc' = "dp"
               /\ known_clauses' = known_clauses
          ELSE IF new_resolvents = {}
            THEN /\ res_result' = Some(TRUE)
                 /\ pc' = "dp"
                 /\ known_clauses' = known_clauses
            ELSE /\ known_clauses' = known_clauses \cup new_resolvents
                 /\ UNCHANGED <<res_result, pc>>
  /\ res_passes' = res_passes + 1
  /\ UNCHANGED <<F, res_started>>
  /\ UNCHANGED dpVars /\ UNCHANGED dpllVars

\* Lines 37-48: one pass of `while True`.
ResPass ==
  /\ pc = "resolution" /\ res_started
  /\ LET found == res_resolvents(known_clauses)
         new_resolvents == found \ {{}}
     IN IF {} \in found
          THEN /\ res_result' = Some(FALSE)
               /\ pc' = "dp"
               /\ known_clauses' = known_clauses
          ELSE IF new_resolvents \subseteq known_clauses \/ new_resolvents = {}
            THEN /\ res_result' = Some(TRUE)
                 /\ pc' = "dp"
                 /\ known_clauses' = known_clauses
            ELSE /\ known_clauses' = known_clauses \cup new_resolvents
                 /\ UNCHANGED <<res_result, pc>>
  /\ res_passes' = res_passes + 1
  /\ UNCHANGED <<F, res_started>>
  /\ UNCHANGED dpVars /\ UNCHANGED dpllVars

---------------------------------------------------------------------------
(* scripts/dpll.py *)

\* simplify with `return None` of line 31 lost: a clause left with no literal
\* is dropped instead of reported as a conflict.
simplify_skip_conflict(clauses, current_assignment) ==
  LET unsatisfied ==
        SelectSeq(clauses, LAMBDA clause :
                    ~\E i \in DOMAIN clause : InList(clause[i], current_assignment))
      new_clauses ==
        [k \in DOMAIN unsatisfied |->
           SelectSeq(unsatisfied[k], LAMBDA literal : ~InList(0 - literal, current_assignment))]
  IN Some(SelectSeq(new_clauses, LAMBDA clause : clause # <<>>))

\* simplify with the filter of line 29 lost: falsified literals stay in their
\* clauses.
simplify_keep_falsified(clauses, current_assignment) ==
  LET unsatisfied ==
        SelectSeq(clauses, LAMBDA clause :
                    ~\E i \in DOMAIN clause : InList(clause[i], current_assignment))
  IN IF \E k \in DOMAIN unsatisfied : unsatisfied[k] = <<>>
       THEN NoneV
       ELSE Some(unsatisfied)

\* simplify(clauses, current_assignment): the clauses with no literal in the
\* assignment, each without the literals whose negation is assigned; None when
\* one of them is left with no literal (the loop returns at the first such).
simplify(clauses, current_assignment) ==
  LET unsatisfied ==
        SelectSeq(clauses, LAMBDA clause :
                    ~\E i \in DOMAIN clause : InList(clause[i], current_assignment))
      new_clauses ==
        [k \in DOMAIN unsatisfied |->
           SelectSeq(unsatisfied[k], LAMBDA literal : ~InList(0 - literal, current_assignment))]
  IN IF \E k \in DOMAIN new_clauses : new_clauses[k] = <<>>
       THEN NoneV
       ELSE Some(new_clauses)

\* find_unit_clause(clauses): the literal of the first clause of length 1.
RECURSIVE find_unit_clause(_)
find_unit_clause(clauses) ==
  IF clauses = <<>> THEN NoneV
  ELSE IF Len(Head(clauses)) = 1 THEN Some(Head(clauses)[1])
  ELSE find_unit_clause(Tail(clauses))

RECURSIVE flatten(_)
flatten(clauses) ==
  IF clauses = <<>> THEN <<>> ELSE Head(clauses) \o flatten(Tail(clauses))

\* The keys of `counter` in insertion order: the literals of the first n
\* places of `literals`, each at its first occurrence.
RECURSIVE counter_keys(_, _)
counter_keys(literals, n) ==
  IF n = 0 THEN <<>>
  ELSE counter_keys(literals, n - 1)
         \o (IF \E m \in 1..(n - 1) : literals[m] = literals[n] THEN <<>> ELSE <<literals[n]>>)

\* find_pure_literals with the test of line 50 lost: every literal counts as pure.
find_pure_literals_all(clauses) ==
  counter_keys(flatten(clauses), Len(flatten(clauses)))

\* find_pure_literals(clauses): the literals whose negation occurs nowhere.
find_pure_literals(clauses) ==
  LET counter == counter_keys(flatten(clauses), Len(flatten(clauses)))
  IN SelectSeq(counter, LAMBDA lit : ~InList(0 - lit, counter))

\* choose_literal(clauses): the variable of the first literal met.
RECURSIVE choose_literal(_)
choose_literal(clauses) ==
  IF clauses = <<>> THEN NoneV
  ELSE IF Head(clauses) # <<>> THEN Some(abs(Head(clauses)[1]))
  ELSE choose_literal(Tail(clauses))

\* One activation of dpll: its locals, where it stands (`at`: "entry" before
\* line 63, "unit" in lines 70-89, "split" before a recursive call of line 93,
\* "wait" during it), and `tried`, the number of values of line 92 already
\* handed to a recursive call.
Frame(clauses, current_assignment, at, variable, tried) ==
  [clauses |-> clauses, current_assignment |-> current_assignment, at |-> at,
   variable |-> variable, tried |-> tried]

Top == stack[Len(stack)]
Callers == SubSeq(stack, 1, Len(stack) - 1)
SatResult(assignment) == [sat |-> TRUE, result |-> Some(assignment)]
UnsatResult == [sat |-> FALSE, result |-> NoneV]

\* The innermost call returns r: to its caller, or to the driver from the root.
Return(r) ==
  /\ stack' = Callers
  /\ IF Len(stack) = 1
       THEN dpll_result' = Some(r) /\ ret' = NoneV /\ pc' = "resolution"
       ELSE dpll_result' = dpll_result /\ ret' = Some(r) /\ pc' = pc

\* The innermost call goes on as frame f.
Continue(f) ==
  /\ stack' = Callers \o <<f>>
  /\ UNCHANGED <<ret, dpll_result, pc>>

\* list.append / the for loop of appends on the innermost call's
\* current_assignment: the root call's list is the caller's A.
Appended(assignment) == IF Len(stack) = 1 THEN assignment ELSE A

\* The driver calls dpll(F, A).
DpllCall ==
  /\ pc = "dpll" /\ stack = <<>> /\ dpll_result = NoneV
  /\ stack' = <<Frame(F, A, "entry", 0, 0)>>
  /\ UNCHANGED <<F, A, pc, ret, dpll_result>>
  /\ UNCHANGED dpVars /\ UNCHANGED resVars

\* Lines 63-67.
DpllEntry ==
  /\ pc = "dpll" /\ stack # <<>> /\ Top.at = "entry"
  /\ LET s == simplify(Top.clauses, Top.current_assignment)
     IN IF s = NoneV THEN Return(UnsatResult)
        ELSE IF s[1] = <<>> THEN Return(SatResult(Top.current_assignment))
        ELSE Continue([Top EXCEPT !.clauses = s[1], !.at = "unit"])
  /\ UNCHANGED <<F, A>>
  /\ UNCHANGED dpVars /\ UNCHANGED resVars

\* Lines 71-76: one iteration of the unit propagation loop.
DpllUnit ==
  /\ pc = "dpll" /\ stack # <<>> /\ Top.at = "unit"
  /\ find_unit_clause(Top.clauses) # NoneV
  /\ LET unit_literal == find_unit_clause(Top.clauses)[1]
         assignment == Append(Top.current_assignment, unit_literal)
         s == simplify(Top.clauses, <<unit_literal>>)
     IN /\ A' = Appended(assignment)
        /\ IF s = NoneV THEN Return(UnsatResult)
           ELSE Continue([Top EXCEPT !.clauses = s[1], !.current_assignment = assignment])
  /\ UNCHANGED F
  /\ UNCHANGED dpVars /\ UNCHANGED resVars

\* Lines 79-89: the pure literal rule and the choice of the split variable.
DpllPure ==
  /\ pc = "dpll" /\ stack # <<>> /\ Top.at = "unit"
  /\ find_unit_clause(Top.clauses) = NoneV
  /\ LET pure_literals == find_pure_literals(Top.clauses)
         assignment == Top.current_assignment \o pure_literals
         s == simplify(Top.clauses, pure_literals)
     IN /\ A' = Appended(assignment)
        /\ IF s = NoneV THEN Return(UnsatResult)
           ELSE IF choose_literal(s[1]) = NoneV THEN Return(SatResult(assignment))
           ELSE Continue([Top EXCEPT !.clauses = s[1], !.current_assignment = assignment,
                                     !.at = "split", !.variable = choose_literal(s[1])[1]])
  /\ UNCHANGED F
  /\ UNCHANGED dpVars /\ UNCHANGED resVars

\* Lines 92-93: the next value of [variable, -variable] and the recursive call
\* on a copy of the clauses and the fresh list current_assignment + [value].
DpllBranch ==
  /\ pc = "dpll" /\ stack # <<>> /\ Top.at = "split"
  /\ LET value == IF Top.tried = 0 THEN Top.variable ELSE 0 - Top.variable
     IN stack' = Callers
                   \o <<[Top EXCEPT !.at = "wait", !.tried = Top.tried + 1],
                        Frame(Top.clauses, Append(Top.current_assignment, value), "entry", 0, 0)>>
  /\ ret' = NoneV
  /\ UNCHANGED <<F, A, pc, dpll_result>>
  /\ UNCHANGED dpVars /\ UNCHANGED resVars

\* Lines 93-97: the recursive call has returned.
DpllResume ==
  /\ pc = "dpll" /\ stack # <<>> /\ Top.at = "wait" /\ ret # NoneV
  /\ IF ret[1].sat THEN Return(ret[1])
     ELSE IF Top.tried = 1 THEN Continue([Top EXCEPT !.at = "split"])
     ELSE Return(UnsatResult)
  /\ UNCHANGED <<F, A>>
  /\ UNCHANGED dpVars /\ UNCHANGED resVars

---------------------------------------------------------------------------

Init ==
  /\ \E n \in 0..MaxTokens : \E t \in TokenLists(n) : F = ClausesOf(t, <<>>)
  /\ A = <<>>
  /\ pc = "dpll"
  /\ formula = <<>> /\ variables = {} /\ dp_started = FALSE
  /\ dp_rounds = 0 /\ dp_eliminated = {} /\ dp_result = NoneV
  /\ known_clauses = {} /\ res_started = FALSE /\ res_passes = 0 /\ res_result = NoneV
  /\ stack = <<>> /\ ret = NoneV /\ dpll_result = NoneV

Next ==
  \/ DpllCall \/ DpllEntry \/ DpllUnit \/ DpllPure \/ DpllBranch \/ DpllResume
  \/ ResStart \/ ResPass
  \/ DpStart \/ DpRound \/ DpExit

Spec == Init /\ [][Next]_vars

\* Each engine is a sequential computation that takes its next step.
FairSpec == Spec /\ WF_vars(Next)

---------------------------------------------------------------------------
(* What the formulas below speak about *)

\* The variables of the caller's formula.
FVars == UNION {{abs(F[i][j]) : j \in DOMAIN F[i]} : i \in DOMAIN F}

\* Literal `literal` is true when exactly the variables of `trueVars` are true.
LitTrue(literal, trueVars) == IF literal > 0 THEN literal \in trueVars ELSE (0 - literal) \notin trueVars

\* Some truth assignment makes every clause of F true.
Satisfiable ==
  \E trueVars \in SUBSET (1..NumVars) :
    \A i \in DOMAIN F : \E j \in DOMAIN F[i] : LitTrue(F[i][j], trueVars)

\* No two entries of an assignment are on the same variable.
OneLiteralPerVariable(assignment) ==
  \A i, j \in DOMAIN assignment : i # j => abs(assignment[i]) # abs(assignment[j])

DpDone == dp_result # NoneV
ResDone == res_result # NoneV
DpllDone == dpll_result # NoneV

\* C1: for every formula dp, resolution and dpll return the same verdict.
Agreement ==
  pc = "done" =>
    /\ dp_result[1] = res_result[1]
    /\ res_result[1] = dpll_result[1].sat

\* C2: whenever dpll(F, []) returns (True, A), every clause of the original
\* formula F contains at least one literal that is present in A.
WitnessValid ==
  (DpllDone /\ dpll_result[1].sat) =>
    \A i \in DOMAIN F : \E j \in DOMAIN F[i] : InList(F[i][j], dpll_result[1].result[1])

\* dpll returned SAT after its true branch had failed: the witness comes out
\* of the pure literal rule, a split and the false branch.
WitnessValidReached ==
  /\ F = << <<-1, -1>>, <<1, 2>> >>
  /\ dpll_result = Some(SatResult(<<2, -1>>))

\* C3: resolution(F) returns UNSAT if and only if no truth assignment
\* satisfies every clause of F, tautological clauses in F included.
ResolutionCorrect ==
  ResDone => (res_result = Some(FALSE) <=> ~Satisfiable)

\* C4: dpll(F, []) returns UNSAT exactly when no truth assignment satisfies
\* all clauses; at a split the chosen variable is tried true first, then
\* false, and a SAT answer of a branch is handed up unchanged.
DpllCorrect ==
  /\ DpllDone => (dpll_result[1].sat <=> Satisfiable)
  /\ \A k \in 1..(Len(stack) - 1) :
       /\ stack[k].at = "wait"
       /\ stack[k].tried \in {1, 2}
       /\ stack[k + 1].current_assignment[Len(stack[k].current_assignment) + 1]
            = (IF stack[k].tried = 1 THEN stack[k].variable ELSE 0 - stack[k].variable)
  /\ (ret # NoneV /\ ret[1].sat) =>
       \A i \in DOMAIN F : \E j \in DOMAIN F[i] : InList(F[i][j], ret[1].result[1])

\* dpll returned UNSAT from the root after both branches of a split failed.
DpllCorrectReached ==
  /\ F = << <<1, 1>>, <<-1, -1>> >>
  /\ dpll_result = Some(UnsatResult)
  /\ A = <<>>

\* C5: a formula that contains the empty clause is reported UNSAT by each of
\* dp, resolution and dpll.
EmptyClauseUnsat ==
  (pc = "done" /\ InList(<<>>, F)) =>
    /\ dp_result = Some(FALSE)
    /\ res_result = Some(FALSE)
    /\ ~dpll_result[1].sat

\* C6: no engine mutates its input: no step changes the caller's formula F
\* or the caller's assignment argument A.
NoMutation == [][F' = F /\ A' = A]_vars

\* C7: in every state of dpll(F, []) no assignment (of any active call, just
\* returned, or the caller's list) holds two literals on the same variable,
\* so never both v and -v.
AssignmentConsistent ==
  /\ \A k \in DOMAIN stack : OneLiteralPerVariable(stack[k].current_assignment)
  /\ OneLiteralPerVariable(A)
  /\ (ret # NoneV /\ ret[1].sat) => OneLiteralPerVariable(ret[1].result[1])
  /\ (DpllDone /\ dpll_result[1].sat) => OneLiteralPerVariable(dpll_result[1].result[1])

\* A recursive call holds a branching assumption and a unit-propagated literal.
AssignmentConsistentReached ==
  /\ Len(stack) = 2
  /\ Top.at = "unit"
  /\ Len(Top.current_assignment) = 2
  /\ Len(stack[1].current_assignment) = 0

\* C8: resolution(F) terminates: each pass of the saturation loop either
\* returns a verdict or adds at least one clause not previously known, the
\* known clauses stay over the variables of F, and a verdict is eventually
\* returned.
ResolutionTerminates ==
  /\ [][(res_started /\ res_passes' # res_passes) =>
          \/ res_result' # NoneV
          \/ (known_clauses \subseteq known_clauses' /\ known_clauses' # known_clauses)]_vars
  /\ [](\A clause \in known_clauses : \A literal \in clause : abs(literal) \in FVars)
  /\ <>ResDone

\* resolution returned SAT at the fixpoint after a pass that added clauses.
ResolutionTerminatesReached ==
  /\ res_result = Some(TRUE)
  /\ res_passes >= 2
  /\ known_clauses # res_seed(F)

\* C9: dp(F) runs at most |variables(F)| elimination rounds: each round
\* removes one variable from the pending set, none adds one, and the loop
\* ends when the set is empty or the empty clause is found.
DpRoundsBounded ==
  dp_started =>
    /\ variables \subseteq FVars
    /\ dp_rounds + Cardinality(variables) = Cardinality(FVars)
    /\ dp_result = Some(TRUE) => variables = {}
    /\ dp_result = Some(FALSE) => InList({}, formula)
    /\ (pc = "dp" /\ variables # {}) => ~DpDone

\* dp returned SAT after one round for each of two variables.
DpRoundsBoundedReached ==
  /\ dp_result = Some(TRUE)
  /\ dp_rounds = 2
  /\ Cardinality(FVars) = 2

\* C10: in dp, once variable v is eliminated no clause of the working formula
\* contains v or -v, in that round and in every later round.
EliminatedNeverReappears ==
  \A v \in dp_eliminated : \A i \in DOMAIN formula :
    v \notin formula[i] /\ (0 - v) \notin formula[i]

====
